---- MODULE Spec2Model ----
(***************************************************************************)
(* Model of the auth endpoints of src/main.py (signup, login, forgot,      *)
(* reset) over the "user" collection.  FastAPI runs every `def` handler in *)
(* a worker thread, so requests interleave between their store operations: *)
(* each store operation (find_one, insert_one, update_one) is one atomic   *)
(* step, together with the handler's local computation around it.          *)
(***************************************************************************)
EXTENDS Integers, Sequences, FiniteSets, TLC

\* ---------------------------------------------------------------- bounds
NumWorkers == 2      \* request handlers that may be in flight together
MaxUsers == 2        \* documents the collection may hold
MaxCode == 1         \* random.randint(0, 999999) is drawn from 0..MaxCode
MaxTime == 16        \* last instant of the clock (minutes)
MaxRequests == 3     \* requests received over a run

\* ------------------------------------------------------- program constants
RESET_MINUTES == 15  \* timedelta(minutes=15)

Workers == 1..NumWorkers
Emails == {"ann@x.com", "bob@x.com"}
Names == {"Ann"}
Passwords == {"secret1", "newpass1"}
\* the instants at which the clock is observed: the start, the moment a code
\* issued at the start expires, and a later moment
Instants == {0, RESET_MINUTES, MaxTime}

None == "None"
\* a timestamp that is None
NoTime == -1

VARIABLES
    store,   \* db["user"]: the documents, in insertion order
    now,     \* datetime.now(timezone.utc), in minutes
    pc,      \* per worker: where its handler stands
    req,     \* per worker: the payload and the locals of its handler
    resp,    \* the response the last step sent, NoResp when it sent none
    served   \* requests received so far

vars == <<store, now, pc, req, resp, served>>

\* ---------------------------------------------------------------- helpers
Digit == <<"0", "1", "2", "3", "4", "5", "6", "7", "8", "9">>

\* f"{n:06d}"
Format06d(n) ==
    Digit[((n \div 100000) % 10) + 1] \o Digit[((n \div 10000) % 10) + 1] \o
    Digit[((n \div 1000) % 10) + 1] \o Digit[((n \div 100) % 10) + 1] \o
    Digit[((n \div 10) % 10) + 1] \o Digit[(n % 10) + 1]

Codes == {Format06d(n) : n \in 0..MaxCode}

\* pwd_context.hash: the bcrypt digest is opaque; it is tagged with its scheme
hash_password(password) == <<"bcrypt", password>>

\* pwd_context.verify
verify_password(password, hashed) ==
    /\ hashed # ""
    /\ hashed[1] = "bcrypt"
    /\ hashed[2] = password

\* dict.get(key, default)
Get(doc, key, default) == IF key \in DOMAIN doc THEN doc[key] ELSE default

\* users.find_one({"email": email}): the index of the first document, 0 for None
find_one(docs, email) ==
    IF \E i \in 1..Len(docs) : docs[i].email = email
    THEN CHOOSE i \in 1..Len(docs) :
            /\ docs[i].email = email
            /\ \A j \in 1..(i - 1) : docs[j].email # email
    ELSE 0

\* users.insert_one(doc): the store assigns _id
insert_one(docs, doc) ==
    Append(docs, [k \in DOMAIN doc \cup {"_id"} |->
                    IF k = "_id" THEN Len(docs) + 1 ELSE doc[k]])

\* the document after {"$set": set, "$unset": unset}
ApplyUpdate(doc, set, unset) ==
    [k \in (DOMAIN doc \cup DOMAIN set) \ unset |->
        IF k \in DOMAIN set THEN set[k] ELSE doc[k]]

\* users.update_one({"_id": id}, {"$set": set, "$unset": unset})
update_one(docs, id, set, unset) ==
    [i \in 1..Len(docs) |->
        IF docs[i]["_id"] = id THEN ApplyUpdate(docs[i], set, unset) ELSE docs[i]]

\* AuthResponse(message, token, name, email) with its HTTP status
AuthResponse(message, token, name, email) ==
    [status |-> 200, message |-> message, token |-> token, name |-> name,
     email |-> email]

\* raise HTTPException(status_code, detail)
HTTPException(status_code, detail) ==
    [status |-> status_code, message |-> detail, token |-> None, name |-> None,
     email |-> None]

NoReq == [op |-> None]

\* no response sent
NoResp == [status |-> 0, message |-> None, token |-> None, name |-> None,
           email |-> None]

\* the worker the thread pool hands the next request to: its first idle one
Ready ==
    {w \in Workers :
        /\ served < MaxRequests
        /\ pc[w] = "idle"
        /\ \A v \in Workers : v < w => pc[v] # "idle"}

\* worker w takes a request off the socket
Accept(w) ==
    /\ w \in Ready
    /\ served' = served + 1

\* the handler of worker w returns (or raises): the response is sent
Finish(w, response) ==
    /\ resp' = response
    /\ pc' = [pc EXCEPT ![w] = "idle"]
    /\ req' = [req EXCEPT ![w] = NoReq]

\* lines 102-110: the document signup builds at instant t
signup_doc(name, email, password, t) ==
    [name |-> name,
     email |-> email,
     password_hash |-> hash_password(password),
     role |-> "student",
     is_active |-> TRUE,
     created_at |-> t,
     updated_at |-> t]

\* ------------------------------------------------------------------- Init
\* the collection outlives the process: at start it is empty, or holds a user
\* who signed up during an earlier run
Init ==
    /\ store \in {<<>>,
                  insert_one(<<>>, signup_doc("Ann", "ann@x.com", "secret1", 0))}
    /\ now = 0
    /\ pc = [w \in Workers |-> "idle"]
    /\ req = [w \in Workers |-> NoReq]
    /\ resp = NoResp
    /\ served = 0

\* ---------------------------------------------------------------- signup
\* documents that handlers past their existence check are about to insert
PendingInserts == Cardinality({w \in Workers : pc[w] = "signup_insert"})

\* signup_find without the existence check: every signup goes on to insert
signup_find_NoCheck(w, name, email, password) ==
    /\ Accept(w)
    /\ Len(store) + PendingInserts < MaxUsers
    /\ pc' = [pc EXCEPT ![w] = "signup_insert"]
    /\ req' = [req EXCEPT ![w] =
                  [op |-> "signup", name |-> name, email |-> email,
                   password |-> password]]
    /\ resp' = NoResp
    /\ UNCHANGED <<store, now>>

\* lines 97-100: the existence check
signup_find(w, name, email, password) ==
    /\ Accept(w)
    /\ Len(store) + PendingInserts < MaxUsers
    /\ IF find_one(store, email) # 0
       THEN Finish(w, HTTPException(409, "Email already registered"))
       ELSE /\ pc' = [pc EXCEPT ![w] = "signup_insert"]
            /\ req' = [req EXCEPT ![w] =
                          [op |-> "signup", name |-> name, email |-> email,
                           password |-> password]]
            /\ resp' = NoResp
    /\ UNCHANGED <<store, now>>

\* lines 102-112: build the document and insert it
signup_insert(w) ==
    /\ pc[w] = "signup_insert"
    /\ store' = insert_one(store,
                    signup_doc(req[w].name, req[w].email, req[w].password, now))
    /\ Finish(w, AuthResponse("Signup successful", None, req[w].name, req[w].email))
    /\ UNCHANGED <<now, served>>

\* ----------------------------------------------------------------- login
\* login_response that tells an unknown email from a wrong password
login_response_Distinct(docs, email, password) ==
    LET i == find_one(docs, email) IN
    IF i = 0
    THEN HTTPException(404, "User not found")
    ELSE IF ~verify_password(password, Get(docs[i], "password_hash", ""))
    THEN HTTPException(401, "Invalid email or password")
    ELSE AuthResponse("Login successful", <<"token_", docs[i]["_id"]>>,
                      Get(docs[i], "name", None), Get(docs[i], "email", None))

\* lines 117-125: the response of login for a payload against the documents
login_response(docs, email, password) ==
    LET i == find_one(docs, email) IN
    IF i = 0
    THEN HTTPException(401, "Invalid email or password")
    ELSE IF ~verify_password(password, Get(docs[i], "password_hash", ""))
    THEN HTTPException(401, "Invalid email or password")
    ELSE AuthResponse("Login successful", <<"token_", docs[i]["_id"]>>,
                      Get(docs[i], "name", None), Get(docs[i], "email", None))

\* login that locks the account on a failed attempt
login_CountsAttempts(w, email, password) ==
    /\ Accept(w)
    /\ LET r == login_response(store, email, password)
           i == find_one(store, email)
       IN /\ Finish(w, IF r.status = 200 THEN r
                       ELSE HTTPException(401, "Invalid email or password"))
          /\ store' = IF r.status # 200 /\ i # 0
                      THEN update_one(store, i, [is_active |-> FALSE], {})
                      ELSE store
    /\ UNCHANGED now

login(w, email, password) ==
    /\ Accept(w)
    /\ Finish(w, login_response(store, email, password))
    /\ UNCHANGED <<store, now>>

\* ---------------------------------------------------------------- forgot
\* forgot_find that rejects an unknown email
forgot_find_NotFound(w, email) ==
    /\ Accept(w)
    /\ LET i == find_one(store, email) IN
       IF i = 0
       THEN Finish(w, HTTPException(404, "User not found"))
       ELSE /\ pc' = [pc EXCEPT ![w] = "forgot_update"]
            /\ req' = [req EXCEPT ![w] =
                          [op |-> "forgot", email |-> email,
                           user_id |-> store[i]["_id"]]]
            /\ resp' = NoResp
    /\ UNCHANGED <<store, now>>

\* lines 129-133: the lookup
forgot_find(w, email) ==
    /\ Accept(w)
    /\ LET i == find_one(store, email) IN
       IF i = 0
       THEN Finish(w, AuthResponse(
                "If the email exists, a reset code has been generated.",
                None, None, None))
       ELSE /\ pc' = [pc EXCEPT ![w] = "forgot_update"]
            /\ req' = [req EXCEPT ![w] =
                          [op |-> "forgot", email |-> email,
                           user_id |-> store[i]["_id"]]]
            /\ resp' = NoResp
    /\ UNCHANGED <<store, now>>

\* forgot_update that also refreshes updated_at
forgot_update_Touches(w) ==
    /\ pc[w] = "forgot_update"
    /\ \E n \in 0..MaxCode :
        LET code == Format06d(n)
            expires == now + RESET_MINUTES
        IN /\ store' = update_one(store, req[w].user_id,
                            [reset_code |-> code, reset_expires |-> expires,
                             updated_at |-> now + 1], {})
           /\ Finish(w, AuthResponse("Reset code generated (demo)", code, None, None))
    /\ UNCHANGED <<now, served>>

\* forgot_update that keeps a pending code instead of overwriting it
forgot_update_KeepsPending(w) ==
    /\ pc[w] = "forgot_update"
    /\ \E n \in 0..MaxCode :
        LET code == Format06d(n)
            expires == now + RESET_MINUTES
            doc == store[req[w].user_id]
        IN /\ store' = IF "reset_code" \in DOMAIN doc
                       THEN store
                       ELSE update_one(store, req[w].user_id,
                                [reset_code |-> code, reset_expires |-> expires], {})
           /\ Finish(w, AuthResponse("Reset code generated (demo)", code, None, None))
    /\ UNCHANGED <<now, served>>

\* forgot_update that invalidates the current password while the reset is pending
forgot_update_InvalidatesPassword(w) ==
    /\ pc[w] = "forgot_update"
    /\ \E n \in 0..MaxCode :
        LET code == Format06d(n)
            expires == now + RESET_MINUTES
        IN /\ store' = update_one(store, req[w].user_id,
                            [reset_code |-> code, reset_expires |-> expires,
                             password_hash |-> hash_password(code)], {})
           /\ Finish(w, AuthResponse("Reset code generated (demo)", code, None, None))
    /\ UNCHANGED <<now, served>>

\* lines 135-140: draw the code, compute the expiry, write both
forgot_update(w) ==
    /\ pc[w] = "forgot_update"
    /\ \E n \in 0..MaxCode :
        LET code == Format06d(n)
            expires == now + RESET_MINUTES
        IN /\ store' = update_one(store, req[w].user_id,
                            [reset_code |-> code, reset_expires |-> expires], {})
           /\ Finish(w, AuthResponse("Reset code generated (demo)", code, None, None))
    /\ UNCHANGED <<now, served>>

\* ----------------------------------------------------------------- reset
\* reset_find that looks at the expiry before it looks at the code
reset_find_ExpiryFirst(w, email, code, new_password) ==
    /\ Accept(w)
    /\ LET i == find_one(store, email) IN
       IF i = 0
       THEN Finish(w, HTTPException(400, "Invalid code or email"))
       ELSE IF "reset_expires" \in DOMAIN store[i] /\ now > store[i].reset_expires
       THEN Finish(w, HTTPException(400, "Reset code expired"))
       ELSE IF Get(store[i], "reset_code", None) # code
       THEN Finish(w, HTTPException(400, "Invalid code or email"))
       ELSE /\ pc' = [pc EXCEPT ![w] = "reset_check"]
            /\ req' = [req EXCEPT ![w] =
                          [op |-> "reset", email |-> email, code |-> code,
                           new_password |-> new_password,
                           user_id |-> store[i]["_id"],
                           expires |-> Get(store[i], "reset_expires", NoTime)]]
            /\ resp' = NoResp
    /\ UNCHANGED <<store, now>>

\* lines 145-147: the lookup and the code check
reset_find(w, email, code, new_password) ==
    /\ Accept(w)
    /\ LET i == find_one(store, email) IN
       IF i = 0 \/ Get(store[i], "reset_code", None) # code
       THEN Finish(w, HTTPException(400, "Invalid code or email"))
       ELSE /\ pc' = [pc EXCEPT ![w] = "reset_check"]
            /\ req' = [req EXCEPT ![w] =
                          [op |-> "reset", email |-> email, code |-> code,
                           new_password |-> new_password,
                           user_id |-> store[i]["_id"],
                           expires |-> Get(store[i], "reset_expires", NoTime)]]
            /\ resp' = NoResp
    /\ UNCHANGED <<store, now>>

\* reset_check without the comparison against the clock
reset_check_NoExpiry(w) ==
    /\ pc[w] = "reset_check"
    /\ pc' = [pc EXCEPT ![w] = "reset_update"]
    /\ resp' = NoResp
    /\ UNCHANGED <<store, now, req, served>>

\* reset_check that already fails at the instant of expiry
reset_check_GE(w) ==
    /\ pc[w] = "reset_check"
    /\ IF req[w].expires = NoTime \/ now >= req[w].expires
       THEN Finish(w, HTTPException(400, "Reset code expired"))
       ELSE /\ pc' = [pc EXCEPT ![w] = "reset_update"]
            /\ resp' = NoResp
            /\ UNCHANGED req
    /\ UNCHANGED <<store, now, served>>

\* lines 149-151: the expiry check against the clock
reset_check(w) ==
    /\ pc[w] = "reset_check"
    /\ IF req[w].expires = NoTime \/ now > req[w].expires
       THEN Finish(w, HTTPException(400, "Reset code expired"))
       ELSE /\ pc' = [pc EXCEPT ![w] = "reset_update"]
            /\ resp' = NoResp
            /\ UNCHANGED req
    /\ UNCHANGED <<store, now, served>>

\* reset_update that clears the reset fields but forgets the new hash
reset_update_NoHash(w) ==
    /\ pc[w] = "reset_update"
    /\ store' = update_one(store, req[w].user_id, [updated_at |-> now],
                    {"reset_code", "reset_expires"})
    /\ Finish(w, AuthResponse("Password reset successful", None, None, None))
    /\ UNCHANGED <<now, served>>

\* reset_update that writes the new hash but leaves the code in place
reset_update_NoUnset(w) ==
    /\ pc[w] = "reset_update"
    /\ store' = update_one(store, req[w].user_id,
                    [password_hash |-> hash_password(req[w].new_password),
                     updated_at |-> now], {})
    /\ Finish(w, AuthResponse("Password reset successful", None, None, None))
    /\ UNCHANGED <<now, served>>

\* reset_update that unsets the code and forgets its expiry
reset_update_UnsetCodeOnly(w) ==
    /\ pc[w] = "reset_update"
    /\ store' = update_one(store, req[w].user_id,
                    [password_hash |-> hash_password(req[w].new_password),
                     updated_at |-> now], {"reset_code"})
    /\ Finish(w, AuthResponse("Password reset successful", None, None, None))
    /\ UNCHANGED <<now, served>>

\* lines 153-158: write the new hash and unset the reset fields
reset_update(w) ==
    /\ pc[w] = "reset_update"
    /\ store' = update_one(store, req[w].user_id,
                    [password_hash |-> hash_password(req[w].new_password),
                     updated_at |-> now],
                    {"reset_code", "reset_expires"})
    /\ Finish(w, AuthResponse("Password reset successful", None, None, None))
    /\ UNCHANGED <<now, served>>

\* ------------------------------------------------------------ environment
\* time passes and a sweeper drops the reset fields that have expired
Tick_Sweep ==
    /\ \E t \in Instants :
        /\ t > now
        /\ now' = t
        /\ store' = [i \in 1..Len(store) |->
                        IF "reset_expires" \in DOMAIN store[i]
                           /\ store[i].reset_expires < t
                        THEN [k \in DOMAIN store[i] \ {"reset_code", "reset_expires"}
                                 |-> store[i][k]]
                        ELSE store[i]]
    /\ resp' = NoResp
    /\ UNCHANGED <<pc, req, served>>

\* time passes
Tick ==
    /\ \E t \in Instants : t > now /\ now' = t
    /\ resp' = NoResp
    /\ UNCHANGED <<store, pc, req, served>>

Next ==
    \/ \E w \in Ready : \E n \in Names, e \in Emails, p \in Passwords :
            signup_find(w, n, e, p)
    \/ \E w \in Workers : signup_insert(w)
    \/ \E w \in Ready : \E e \in Emails, p \in Passwords : login(w, e, p)
    \/ \E w \in Ready : \E e \in Emails : forgot_find(w, e)
    \/ \E w \in Workers : forgot_update(w)
    \/ \E w \in Ready : \E e \in Emails, c \in Codes, p \in Passwords :
            reset_find(w, e, c, p)
    \/ \E w \in Workers : reset_check(w)
    \/ \E w \in Workers : reset_update(w)
    \/ Tick

Spec == Init /\ [][Next]_vars

\* ================================================================ claims
Has(doc, key) == key \in DOMAIN doc
Docs == 1..Len(store)
\* the status login would answer with, against the documents
LoginStatus(docs, email, password) == login_response(docs, email, password).status
\* the passwords that authenticate against document i
Authenticates(docs, i) ==
    {p \in Passwords : verify_password(p, Get(docs[i], "password_hash", ""))}
ResetOk == AuthResponse("Password reset successful", None, None, None)
InvalidCode == HTTPException(400, "Invalid code or email")
Expired == HTTPException(400, "Reset code expired")
Conflict == HTTPException(409, "Email already registered")
Unauthenticated == HTTPException(401, "Invalid email or password")
GenericForgot ==
    AuthResponse("If the email exists, a reset code has been generated.",
                 None, None, None)
\* a request arrives in this step
Arrives == served' = served + 1
\* worker w writes to document i in this step
ForgotWrites(w, i) == forgot_update(w) /\ req[w].user_id = i
ResetWrites(w, i) == reset_update(w) /\ req[w].user_id = i

\* ---- C1
\* forgot_update stores the code it returns with an expiry 15 minutes ahead
C1_Issue ==
    \A w \in Workers : forgot_update(w) =>
        LET d == store'[req[w].user_id] IN
        /\ resp'.status = 200
        /\ resp'.token \in Codes
        /\ Has(d, "reset_code") /\ d.reset_code = resp'.token
        /\ Has(d, "reset_expires") /\ d.reset_expires = now + RESET_MINUTES

\* a reset that finds the issued code stored passes the code check, and one that
\* reads the clock no later than the expiry goes on to the write
C1_Accepts ==
    /\ Arrives => \A w \in Ready, e \in Emails :
        LET i == find_one(store, e) IN
        (i # 0 /\ Has(store[i], "reset_code")) =>
            \A p \in Passwords :
                reset_find(w, e, store[i].reset_code, p) =>
                    /\ pc'[w] = "reset_check"
                    /\ req'[w].user_id = i
                    /\ req'[w].expires = store[i].reset_expires
                    /\ req'[w].new_password = p
    /\ \A w \in Workers :
        (reset_check(w) /\ now <= req[w].expires) => pc'[w] = "reset_update"

\* C1 as amended: after forgotPassword returned C, resetPassword(email, C,
\* newPassword) handled before the expiry succeeds; right after its write, login
\* with newPassword succeeds and login with any other password, the old one
\* included when it differs from newPassword, fails with 401; and the passwords
\* that authenticate stay so until a later reset writes again.
C1_ResetThenLogin ==
    [][/\ C1_Issue
       /\ C1_Accepts
       /\ \A w \in Workers : reset_update(w) =>
            LET e == req[w].email
                np == req[w].new_password
            IN /\ resp' = ResetOk
               /\ LoginStatus(store', e, np) = 200
               /\ \A p \in Passwords \ {np} : LoginStatus(store', e, p) = 401
       /\ store' # store => \A i \in Docs :
            (\A w \in Workers : ~ResetWrites(w, i))
            => Authenticates(store', i) = Authenticates(store, i)]_vars

\* C1 as stated: after the reset, login with the old password fails
C1_OldPasswordFails ==
    [][\A w \in Workers : reset_update(w) =>
        \A old \in Authenticates(store, req[w].user_id) :
            LoginStatus(store', req[w].email, old) = 401]_vars

\* a reset has just succeeded; the new password logs in and the other does not
C1_Witness ==
    /\ resp = ResetOk
    /\ \E e \in Emails :
        /\ LoginStatus(store, e, "newpass1") = 200
        /\ LoginStatus(store, e, "secret1") = 401
        /\ store[find_one(store, e)].updated_at > store[find_one(store, e)].created_at

\* ---- C2
\* C2: the reset code is single-use: a successful reset unsets the code; while
\* no forgotPassword writes to the record the code stays unset; and every reset
\* that finds it unset fails with InvalidRequest (400) and changes nothing.
C2_SingleUse ==
    [][/\ \A w \in Workers : reset_update(w) =>
            /\ resp' = ResetOk
            /\ ~Has(store'[req[w].user_id], "reset_code")
       /\ store' # store => \A i \in Docs :
            (/\ ~Has(store[i], "reset_code")
             /\ \A w \in Workers : ~ForgotWrites(w, i))
            => ~Has(store'[i], "reset_code")
       /\ Arrives => \A w \in Ready, e \in Emails :
            LET i == find_one(store, e) IN
            (i # 0 /\ ~Has(store[i], "reset_code")) =>
                \A c \in Codes, p \in Passwords :
                    reset_find(w, e, c, p) =>
                        /\ resp' = InvalidCode
                        /\ pc'[w] = "idle"
                        /\ store' = store]_vars

\* a reset was refused for a record whose code had been consumed by a reset
C2_Witness ==
    /\ resp = InvalidCode
    /\ \E i \in Docs :
        /\ ~Has(store[i], "reset_code")
        /\ store[i].updated_at > store[i].created_at

\* ---- C3
\* C3: a reset whose code matched the stored one but which is handled after the
\* expiry fails with Expired (400 'Reset code expired'); neither of its steps
\* writes, so password_hash, reset_code and reset_expires stay as they were.
C3_ExpiredUnchanged ==
    [][/\ \A w \in Workers :
            (pc[w] = "idle" /\ pc'[w] = "reset_check") =>
                LET i == find_one(store, req'[w].email) IN
                /\ store' = store
                /\ i # 0 /\ req'[w].user_id = i
                /\ store[i].reset_code = req'[w].code
                /\ req'[w].expires = store[i].reset_expires
       /\ \A w \in Workers :
            (reset_check(w) /\ now > req[w].expires) =>
                /\ resp' = Expired
                /\ pc'[w] = "idle"
                /\ store' = store]_vars

\* Expired was answered and the record still holds its expired code
C3_Witness ==
    /\ resp = Expired
    /\ \E i \in Docs :
        /\ Has(store[i], "reset_code")
        /\ Has(store[i], "reset_expires")
        /\ store[i].reset_expires < now

\* ---- C4
\* C4: email is unique across the documents in every reachable state
C4_EmailUnique ==
    \A i, j \in Docs : store[i].email = store[j].email => i = j

\* ---- C5
\* C5 as amended: a signup whose lookup finds a record for the email fails with
\* Conflict (409) and neither modifies that record nor inserts one; every
\* password that authenticated still does, and the attempted password
\* authenticates only if it is the existing user's password.
C5_ConflictUnchanged ==
    [][Arrives => \A w \in Ready, e \in Emails :
        LET i == find_one(store, e) IN
        i # 0 => \A n \in Names, p \in Passwords :
            signup_find(w, n, e, p) =>
                /\ resp' = Conflict
                /\ pc'[w] = "idle"
                /\ store' = store
                /\ \A old \in Authenticates(store, i) :
                        LoginStatus(store', e, old) = 200
                /\ p \notin Authenticates(store, i)
                        => LoginStatus(store', e, p) = 401]_vars

\* C5 as stated: after the rejected signup the attempted password does not
\* authenticate
C5_AttemptedFails ==
    [][Arrives => \A w \in Ready, n \in Names, e \in Emails, p \in Passwords :
        (signup_find(w, n, e, p) /\ find_one(store, e) # 0) =>
            LoginStatus(store', e, p) = 401]_vars

\* a signup was refused with Conflict and the record is as signup wrote it
C5_Witness ==
    /\ resp = Conflict
    /\ \E i \in Docs :
        /\ store[i].updated_at = store[i].created_at
        /\ Cardinality(Authenticates(store, i)) = 1

\* ---- C6
\* C6: a signup that found its email unused succeeds, inserts exactly one
\* record, and login with the same email and password then succeeds
C6_SignupThenLogin ==
    [][\A w \in Workers : signup_insert(w) =>
        /\ resp'.status = 200
        /\ Len(store') = Len(store) + 1
        /\ LoginStatus(store', req[w].email, req[w].password) = 200]_vars

\* ---- C7
\* C7: every failing login, whether the email is unknown or the password is
\* wrong, gets the same response: same status 401, same detail, nothing else
C7_UniformFailure ==
    /\ \A e \in Emails, p \in Passwords :
        LET r == login_response(store, e, p) IN
        r.status # 200 => r = Unauthenticated
    /\ resp.status = 401 => resp = Unauthenticated

\* a login has just failed while the store holds both cases: an unknown email,
\* and a known email with a password that does not verify
C7_Witness ==
    /\ resp = Unauthenticated
    /\ \E e \in Emails : find_one(store, e) = 0
    /\ \E e \in Emails, p \in Passwords :
        find_one(store, e) # 0 /\ LoginStatus(store, e, p) = 401

\* ---- C8
\* C8: forgotPassword on an email with no record answers with a success and
\* leaves the store as it was; the handler ends there, with no write to follow
C8_UnknownForgot ==
    [][Arrives => \A w \in Ready, e \in Emails :
        find_one(store, e) = 0 =>
            (forgot_find(w, e) =>
                /\ resp'.status = 200
                /\ resp' = GenericForgot
                /\ pc'[w] = "idle"
                /\ store' = store)]_vars

\* the generic answer was given while some email has no record
C8_Witness ==
    /\ resp = GenericForgot
    /\ \E e \in Emails : find_one(store, e) = 0

\* ---- C9
\* C9: the response of forgotPassword is the same whether or not the email is
\* registered: every response it sends is the generic one
C9_ForgotIndistinguishable ==
    resp.message \in {GenericForgot.message, "Reset code generated (demo)"}
        => resp = GenericForgot

\* ---- C10
\* C10: every document has reset_code and reset_expires both present or both
\* absent
C10_ResetFieldsPaired ==
    \A i \in Docs : Has(store[i], "reset_code") <=> Has(store[i], "reset_expires")

\* a document that went through a reset, which cleared both fields, holds both
\* again after a later forgotPassword
C10_Witness ==
    \E i \in Docs :
        /\ Has(store[i], "reset_code")
        /\ Has(store[i], "reset_expires")
        /\ store[i].updated_at > store[i].created_at

\* ---- C11
\* C11: a reset fails with InvalidRequest (400 'Invalid code or email') and
\* writes nothing when no record matches the email, when the record has no
\* reset pending, or when its reset_code differs from the supplied code; the
\* code is checked before the expiry, so this holds of a pending reset that
\* has expired as well.
C11_InvalidRequest ==
    [][Arrives => \A w \in Ready, e \in Emails, c \in Codes :
        LET i == find_one(store, e) IN
        (i = 0 \/ ~Has(store[i], "reset_code") \/ store[i].reset_code # c) =>
            \A p \in Passwords :
                reset_find(w, e, c, p) =>
                    /\ resp' = InvalidCode
                    /\ pc'[w] = "idle"
                    /\ store' = store]_vars

\* InvalidRequest was answered while every record holds a code that has
\* expired, so a wrong code for such a record is answered this way
C11_Witness ==
    /\ resp = InvalidCode
    /\ Len(store) > 0
    /\ \A i \in Docs :
        /\ Has(store[i], "reset_code")
        /\ store[i].reset_expires < now

\* ---- C12
\* the fields forgotPassword may write
ResetFields == {"reset_code", "reset_expires"}

\* C12: forgotPassword on a registered email goes on to one write, which
\* changes one record and only its reset fields: reset_code becomes the
\* 6-digit code in the response, reset_expires the time of the request plus 15
\* minutes; password_hash, name, email, role, is_active and the other fields
\* of the record, and every other record, stay as they were.
C12_ForgotFrame ==
    [][/\ Arrives => \A w \in Ready, e \in Emails :
            find_one(store, e) # 0 =>
                (forgot_find(w, e) =>
                    /\ pc'[w] = "forgot_update"
                    /\ req'[w].user_id = find_one(store, e)
                    /\ store' = store)
       /\ \A w \in Workers : forgot_update(w) =>
            LET i == req[w].user_id IN
            /\ resp'.status = 200
            /\ Len(resp'.token) = 6
            /\ resp'.token \in Codes
            /\ Len(store') = Len(store)
            /\ \A j \in Docs \ {i} : store'[j] = store[j]
            /\ DOMAIN store'[i] = DOMAIN store[i] \cup ResetFields
            /\ \A k \in DOMAIN store[i] \ ResetFields : store'[i][k] = store[i][k]
            /\ store'[i].reset_code = resp'.token
            /\ store'[i].reset_expires = now + RESET_MINUTES]_vars

\* a code was issued for one of two records; the other holds no reset fields
C12_Witness ==
    /\ resp.message = "Reset code generated (demo)"
    /\ Len(store) = 2
    /\ \E i, j \in Docs :
        /\ i # j
        /\ Has(store[i], "reset_code") /\ store[i].reset_code = resp.token
        /\ ~Has(store[j], "reset_code")

\* ---- C13
\* C13: a forgotPassword on a record whose reset is still pending overwrites
\* the pending code and expiry; after two such writes, in either order of
\* arrival, the record holds one code, the one returned by the last write, and
\* a reset that arrives with any other code, the first call's included, fails
\* with InvalidRequest.
C13_Overwrites ==
    [][/\ \A w \in Workers : forgot_update(w) =>
            LET i == req[w].user_id IN
            Has(store[i], "reset_code") =>
                /\ store'[i].reset_code = resp'.token
                /\ store'[i].reset_expires = now + RESET_MINUTES
                /\ store[i].reset_code # resp'.token =>
                       store'[i].reset_code # store[i].reset_code
                /\ \A v \in Workers \ {w} :
                       (pc[v] = "forgot_update" /\ req[v].user_id = i) =>
                           (pc'[v] = "forgot_update" /\ req'[v] = req[v])
       /\ Arrives => \A w \in Ready, e \in Emails :
            LET i == find_one(store, e) IN
            (i # 0 /\ Has(store[i], "reset_code")) =>
                \A c \in Codes \ {store[i].reset_code}, p \in Passwords :
                    reset_find(w, e, c, p) =>
                        resp' = InvalidCode /\ store' = store]_vars

\* a second forgotPassword has just replaced the code that a reset in flight
\* had matched: the record holds the code of the last write only
C13_Witness ==
    /\ resp.message = "Reset code generated (demo)"
    /\ \E w \in Workers :
        /\ pc[w] \in {"reset_check", "reset_update"}
        /\ Has(store[req[w].user_id], "reset_code")
        /\ store[req[w].user_id].reset_code = resp.token
        /\ store[req[w].user_id].reset_code # req[w].code

\* ---- C14
\* C14: with a matching code, the reset fails with Expired exactly when the
\* reset_expires it looked up is strictly before the clock at the check; when
\* the clock equals reset_expires the check passes and the reset goes on to
\* its write, which answers success.
C14_StrictExpiry ==
    [][\A w \in Workers :
        /\ reset_check(w) =>
            /\ (resp' = Expired) <=> (req[w].expires < now)
            /\ (req[w].expires >= now) => pc'[w] = "reset_update"
            /\ (req[w].expires < now) => pc'[w] = "idle"
            /\ store' = store
        /\ reset_update(w) => resp' = ResetOk]_vars

\* a reset has passed the expiry check and stands at its write at the very
\* instant the code expires
C14_Witness ==
    \E w \in Workers :
        /\ pc[w] = "reset_update"
        /\ req[w].expires = now
        /\ Has(store[req[w].user_id], "reset_code")
        /\ store[req[w].user_id].reset_code = req[w].code
        /\ store[req[w].user_id].reset_expires = now

\* ---- C15
\* C15: one issued code yields at most one successful reset, concurrent resets
\* included: a reset that succeeds finds the code it consumes still stored, so
\* that a second success on the same code finds none and cannot happen.
C15_AtMostOneSuccess ==
    [][\A w \in Workers : reset_update(w) =>
        Has(store[req[w].user_id], "reset_code")]_vars

\* ---- C16
\* C16: the reset writes the new hash and clears the reset fields only if, at
\* the moment of the write, the stored reset_code still equals the code that
\* was supplied: a superseded code changes no password and a success clears no
\* code but the one it verified.
C16_WriteGuarded ==
    [][\A w \in Workers : reset_update(w) =>
        LET d == store[req[w].user_id] IN
        Has(d, "reset_code") => d.reset_code = req[w].code]_vars

\* ---- C17
\* C17: password_hash of a record changes only in the write of a successful
\* reset on that record; every other step, the write of forgotPassword and
\* every rejected request included, leaves the passwords that authenticate as
\* they were, and a login with a password that authenticates succeeds whether
\* or not a reset is pending or expired on the record.
C17_HashOnlyByReset ==
    [][/\ store' # store => \A i \in Docs :
            (\A w \in Workers : ~ResetWrites(w, i)) =>
                /\ store'[i].password_hash = store[i].password_hash
                /\ Authenticates(store', i) = Authenticates(store, i)
       /\ resp'.status \in {400, 401, 409} => store' = store
       /\ Arrives => \A w \in Ready, e \in Emails :
            LET i == find_one(store, e) IN
            i # 0 => \A p \in Authenticates(store, i) :
                login(w, e, p) =>
                    /\ resp'.status = 200
                    /\ resp'.message = "Login successful"
                    /\ store' = store]_vars

\* a login has succeeded on a record whose reset code is stored and expired
C17_Witness ==
    /\ resp.message = "Login successful"
    /\ \E i \in Docs :
        /\ store[i].email = resp.email
        /\ find_one(store, resp.email) = i
        /\ Has(store[i], "reset_code")
        /\ store[i].reset_expires < now

\* ---- C18
\* the fields fixed at signup
SignupFields == {"_id", "name", "email", "role", "is_active", "created_at"}

\* C18: login leaves the store as it was, whatever it answers; no step removes
\* a record or changes its id, name, email, role, is_active or created_at; so
\* after a failed login every login is answered as it would have been before.
C18_LoginFrame ==
    [][/\ Arrives => \A w \in Ready, e \in Emails, p \in Passwords :
            login(w, e, p) =>
                /\ store' = store
                /\ \A e2 \in Emails, p2 \in Passwords :
                       LoginStatus(store', e2, p2) = LoginStatus(store, e2, p2)
       /\ Len(store') >= Len(store)
       /\ \A i \in Docs : \A k \in SignupFields :
            /\ Has(store[i], k)
            /\ Has(store'[i], k)
            /\ store'[i][k] = store[i][k]]_vars

\* a login has just failed while some payload would succeed, after at least
\* one earlier request
C18_Witness ==
    /\ resp = Unauthenticated
    /\ served >= 2
    /\ \E e \in Emails, p \in Passwords : LoginStatus(store, e, p) = 200

\* ---- C19
\* record i holds a reset code whose expiry has passed
ExpiredPending(docs, i, t) ==
    Has(docs[i], "reset_code") /\ docs[i].reset_expires < t

\* a step in which the clock moves changes no record, and no step but a write
\* of forgotPassword or of resetPassword on the record changes its reset fields
C19_TimeAlone ==
    /\ now' # now => store' = store
    /\ store' # store => \A i \in Docs :
        (\A w \in Workers : ~ForgotWrites(w, i) /\ ~ResetWrites(w, i)) =>
            /\ Has(store'[i], "reset_code") = Has(store[i], "reset_code")
            /\ Get(store'[i], "reset_code", None) = Get(store[i], "reset_code", None)
            /\ Get(store'[i], "reset_expires", NoTime)
                  = Get(store[i], "reset_expires", NoTime)

\* an expired code changes or disappears only when forgotPassword overwrites it
C19_ExpiredStays ==
    store' # store => \A i \in Docs :
        (ExpiredPending(store, i, now) /\ \A w \in Workers : ~ForgotWrites(w, i)) =>
            /\ Has(store'[i], "reset_code")
            /\ store'[i].reset_code = store[i].reset_code
            /\ store'[i].reset_expires = store[i].reset_expires

\* whatever the reset state of the record, forgotPassword stores the code it
\* returns with a fresh expiry; a reset that finds that code stored passes the
\* code check, passes the expiry check up to the expiry, and then succeeds
C19_NoTrap ==
    /\ Arrives => \A w \in Ready, e \in Emails :
        LET i == find_one(store, e) IN
        i # 0 =>
            /\ forgot_find(w, e) =>
                /\ pc'[w] = "forgot_update"
                /\ req'[w].user_id = store[i]["_id"]
            /\ Has(store[i], "reset_code") => \A p \in Passwords :
                reset_find(w, e, store[i].reset_code, p) =>
                    /\ pc'[w] = "reset_check"
                    /\ req'[w].user_id = store[i]["_id"]
                    /\ req'[w].expires = store[i].reset_expires
                    /\ req'[w].new_password = p
    /\ \A w \in Workers :
        /\ forgot_update(w) =>
            LET i == req[w].user_id IN
            /\ store'[i].reset_code = resp'.token
            /\ store'[i].reset_expires = now + RESET_MINUTES
            /\ ~ExpiredPending(store', i, now)
        /\ reset_check(w) =>
            (now <= req[w].expires => pc'[w] = "reset_update" /\ req'[w] = req[w])
        /\ reset_update(w) =>
            LET i == req[w].user_id IN
            /\ resp' = ResetOk
            /\ req[w].new_password \in Authenticates(store', i)
            /\ ~Has(store'[i], "reset_code")

\* C19 as stated: time alone changes no record, an expired code stays stored
\* until a forgotPassword overwrites it, and a forgotPassword followed by a
\* reset with the returned code before the new expiry succeeds from any reset
\* state of the record.
C19_LazyExpiryAsStated ==
    [][C19_TimeAlone /\ C19_ExpiredStays /\ C19_NoTrap]_vars

\* C19: time alone changes no record; a stored code, expired or not, stays as
\* it is until a forgotPassword overwrites it or the write of a resetPassword
\* clears it; and a forgotPassword followed by a reset with the returned code
\* before the new expiry succeeds from any reset state of the record.
C19_LazyExpiry ==
    [][C19_TimeAlone /\ C19_NoTrap]_vars

\* a forgotPassword has just overwritten a code that had expired: a reset in
\* flight still carries the old expiry, the record the fresh one
C19_Witness ==
    /\ resp.message = "Reset code generated (demo)"
    /\ \E w \in Workers :
        /\ pc[w] \in {"reset_check", "reset_update"}
        /\ req[w].expires < now
        /\ store[req[w].user_id].reset_code = resp.token
        /\ store[req[w].user_id].reset_expires = now + RESET_MINUTES

====
